---- MODULE Spec2Model ----
(***************************************************************************)
(* trackmoji: an HTTP backend that records financial transactions from     *)
(* free text.  The model covers the request handlers of                    *)
(* transaction.controller.js and users.controller.js, the analyzer and     *)
(* query engine of the gemini client, the checkUserExists middleware, the  *)
(* route tables and the errorHandler boundary.  The relational store and   *)
(* the generation service are external: every call to them is one step of  *)
(* the request that awaits it, and its outcome (a value, or a thrown       *)
(* error) is chosen when the call returns.                                 *)
(***************************************************************************)
EXTENDS Integers, Sequences, FiniteSets, TLC

(* ------------------------------ bounds --------------------------------- *)
MaxReq == 2        \* requests received over a run
MaxClock == 2      \* last instant of the wall clock
MaxSerialReq == 3  \* requests received over a run that serves one at a time
MaxLiveReq == 2    \* requests received over a run checked for termination

\* The connections on which requests are served concurrently.
Slots == 1..2

(* --------------------------- JavaScript values ------------------------- *)
\* undefined / null is the empty tuple, a present value v is <<v>>.
None == <<>>
Some(v) == <<v>>

\* !x for a string-valued x: undefined, null and "" are falsy.
TruthyStr(o) == o # None /\ o[1] # ""
\* !x for a number-valued x: undefined, null and 0 are falsy.
TruthyNum(o) == o # None /\ o[1] # 0
\* x || null
OrNull(o) == IF TruthyStr(o) THEN o ELSE None

\* String.prototype.toLowerCase on the type strings the model can return.
toLowerCase_Identity(s) == s
toLowerCase(s) ==
    CASE s = "Credit" -> "credit"
      [] s = "CREDIT" -> "credit"
      [] s = "Debit" -> "debit"
      [] s = "DEBIT" -> "debit"
      [] OTHER -> s

\* Dates.  An instant is a natural number; a date string is either the
\* ISO-8601 text of an instant or text that does not parse.
toISOString(t) == [iso |-> TRUE, t |-> t]
Garbage == [iso |-> FALSE, t |-> 0]
\* new Date(s): the instant, or nothing for an Invalid Date.
ParseDate(o) == IF o # None /\ o[1].iso THEN Some(o[1].t) ELSE None

(* ------------------------------ inputs --------------------------------- *)
Phones == {"+1555", "+1777"}
PhoneInputs == Phones \cup {""}
TextInputs == {"", "received 500 from mom"}
QuestionInputs == {"", "what's my balance?"}
NameInputs == {"", "Asha"}

\* Messages of errors thrown by the generation service call.
GenMessages == {"429 quota exceeded"}
NoTextMessage == "Failed to get a valid text response from the AI model."
NoTextQueryMessage == "Failed to get a valid text response from the AI model for query."
ParseMessage == "Unexpected token < in JSON at position 0"

\* A JSON object returned by the model for the analysis schema.
Json(type, amount, category, source, date) ==
    [type |-> type, amount |-> amount, description |-> Some("desc"),
     category |-> category, source |-> source, date |-> date,
     confidence |-> Some(1), error |-> None]

ModelOutputs ==
    { Json(Some("credit"), Some(500), Some("gift"), Some("mom"), Some(toISOString(1))),
      Json(Some("debit"), Some(200), Some("Food"), None, None),
      Json(Some("debit"), Some(200), None, Some(""), Some(Garbage)),
      Json(Some("Credit"), Some(500), Some("gift"), Some("constructor"), Some(toISOString(1))),
      Json(Some("transfer"), Some(200), Some("food"), Some("bank"), None),
      Json(Some("debit"), Some(-5), Some("FOOD delivery"), None, None),
      Json(Some("credit"), Some(0), Some("gift"), Some("mom"), None),
      Json(Some("debit"), None, Some("food"), None, None),
      Json(None, Some(500), None, None, None),
      Json(Some(""), Some(200), None, None, None) }

\* Outcomes of one generation call: the service throws, the result has no
\* string text, the text is not JSON, or the text parses to an object.
GenOutcomes ==
    [kind : {"throws"}, message : GenMessages, json : {Json(None, None, None, None, None)}]
    \cup [kind : {"notext", "badjson"}, message : {""}, json : {Json(None, None, None, None, None)}]
    \cup [kind : {"ok"}, message : {""}, json : ModelOutputs]

\* Errors thrown by a store call.
KnownRequestError(code) == [cls |-> "PrismaClientKnownRequestError", code |-> Some(code),
                            message |-> "known request error", meta |-> code = "P2002"]
UniqueViolation == KnownRequestError("P2002")
StoreFaults ==
    { KnownRequestError("P2025"), KnownRequestError("P2003"),
      [cls |-> "PrismaClientValidationError", code |-> None,
       message |-> "invalid invocation", meta |-> FALSE],
      [cls |-> "Error", code |-> None, message |-> "connection lost", meta |-> FALSE] }
\* A store call returns normally or throws one of the faults.
NoFault == [cls |-> "", code |-> None, message |-> "", meta |-> FALSE]
StoreOutcomes == {NoFault} \cup StoreFaults

(* ------------------------------- state --------------------------------- *)
VARIABLES
    user,          \* rows of the User table
    transaction,   \* rows of the unified Transaction table
    credit,        \* rows of the Credit table
    debit,         \* rows of the Debit table
    reqs,          \* the requests being served: position, locals and response
    received,      \* number of requests received so far
    now,           \* the wall clock
    routes,        \* which transaction.routes.js is mounted
    nodeEnv,       \* process.env.NODE_ENV
    capacity,      \* how many requests the run receives, on how many connections
    posted,        \* history: the process requests answered 201
    lastSummary    \* history: the last answer of getTransactionSummary

vars == <<user, transaction, credit, debit, reqs, received, now, routes, nodeEnv,
          capacity, posted, lastSummary>>
store == <<user, transaction, credit, debit>>

(* ----------------------------- responses ------------------------------- *)
EmptyBody ==
    [success |-> FALSE, message |-> "", details |-> None, partialAnalysis |-> None,
     transaction |-> None, specificTransaction |-> None, analysis |-> None,
     data |-> None, rows |-> None, summary |-> None, byCategory |-> None,
     user |-> None, stack |-> None, code |-> None, meta |-> None]

ErrorBody(message) == [EmptyBody EXCEPT !.message = message]

IdleReq ==
    [id |-> 0, kind |-> "none", pc |-> "idle", text |-> "", question |-> "", userPhone |-> "",
     name |-> "", category |-> "", since |-> 0, entered |-> FALSE, analysis |-> None, genError |-> None,
     userId |-> 0, transactionDate |-> 0, transaction |-> None, fetched |-> None,
     genCalls |-> 0, storeCalls |-> 0, mwCalls |-> 0, thrown |-> None, passed |-> 0,
     status |-> 0, body |-> EmptyBody]

\* res.status(s).json(b)
Respond(r, s, b) == [r EXCEPT !.pc = "done", !.status = s, !.body = b]

(* --------------------------- errorHandler.js --------------------------- *)
ErrorStatus_NoConflict(err) ==
    IF err.cls = "PrismaClientKnownRequestError"
    THEN CASE err.code = Some("P2025") -> 404
           [] OTHER -> 400
    ELSE IF err.cls = "PrismaClientValidationError" THEN 400
    ELSE IF err.cls = "ValidationError" THEN 400
    ELSE 500
ErrorStatus(err) ==
    IF err.cls = "PrismaClientKnownRequestError"
    THEN CASE err.code = Some("P2002") -> 409
           [] err.code = Some("P2025") -> 404
           [] OTHER -> 400
    ELSE IF err.cls = "PrismaClientValidationError" THEN 400
    ELSE IF err.cls = "ValidationError" THEN 400
    ELSE 500

ErrorMessage_Raw(err) ==
    IF err.cls = "PrismaClientKnownRequestError"
    THEN CASE err.code = Some("P2002") -> "Unique constraint failed on the field(s): phone"
           [] err.code = Some("P2025") -> "Resource not found."
           [] OTHER -> "Database request error. Check input data."
    ELSE IF err.cls = "PrismaClientValidationError"
    THEN "Validation error: Invalid input data provided."
    ELSE err.message
ErrorMessage(err) ==
    IF err.cls = "PrismaClientKnownRequestError"
    THEN CASE err.code = Some("P2002") -> "Unique constraint failed on the field(s): phone"
           [] err.code = Some("P2025") -> "Resource not found."
           [] OTHER -> "Database request error. Check input data."
    ELSE IF err.cls = "PrismaClientValidationError"
    THEN "Validation error: Invalid input data provided."
    ELSE IF err.cls = "ValidationError" THEN err.message
    ELSE "Internal Server Error"

errorHandler(err, env) ==
    [EmptyBody EXCEPT !.message = ErrorMessage(err),
                      !.stack = IF env # "production" THEN Some(err.message) ELSE None,
                      !.code = err.code,
                      !.meta = IF err.meta THEN Some("phone") ELSE None]

\* catch (error) { next(error) }: the handler's frame is left and the error is
\* handed to the boundary.
NextError(r, err) ==
    Respond([r EXCEPT !.analysis = None, !.userId = 0, !.transactionDate = 0,
                      !.transaction = None, !.fetched = None,
                      !.thrown = Some(err), !.passed = r.passed + 1],
            ErrorStatus(err), errorHandler(err, nodeEnv))

(* ------------------------- analyzeTransaction -------------------------- *)
\* The degraded analysis returned from the catch block.
Degraded_NoDescription(text, t, message) ==
    [type |-> Some("unknown"), amount |-> Some(0), description |-> None,
     category |-> Some("unknown"), source |-> Some("unknown"),
     date |-> Some(toISOString(t)), confidence |-> Some(0), error |-> Some(message)]
Degraded(text, t, message) ==
    [type |-> Some("unknown"), amount |-> Some(0), description |-> Some(text),
     category |-> Some("unknown"), source |-> Some("unknown"),
     date |-> Some(toISOString(t)), confidence |-> Some(0), error |-> Some(message)]

\* The message of the error caught for a failed generation outcome.
FailureMessage(out) ==
    CASE out.kind = "throws" -> out.message
      [] out.kind = "notext" -> NoTextMessage
      [] OTHER -> ParseMessage

\* The value analyzeTransaction returns for a generation outcome at time t.
analyzeTransaction(text, out, t) ==
    IF out.kind = "ok"
    THEN IF out.json.date = None
         THEN [out.json EXCEPT !.date = Some(toISOString(t))]
         ELSE out.json
    ELSE Degraded(text, t, FailureMessage(out))

(* ------------------------- processTransaction -------------------------- *)
\* !text || !userPhone
MissingFields_FirstOnly(a, b) == a = ""
MissingFields_SecondOnly(a, b) == b = ""
MissingFields(a, b) == a = "" \/ b = ""

\* !analysis.type || !analysis.amount
InvalidAnalysis_TypeOnly(a) == ~TruthyStr(a.type)
InvalidAnalysis_PresenceCheck(a) == ~TruthyStr(a.type) \/ a.amount = None
InvalidAnalysis(a) == ~TruthyStr(a.type) \/ ~TruthyNum(a.amount)

\* The parsed analysis date, or the current time when it does not parse.
TransactionDate_NoFallback(a, t) == IF ParseDate(a.date) = None THEN 0 ELSE ParseDate(a.date)[1]
TransactionDate(a, t) == IF ParseDate(a.date) = None THEN t ELSE ParseDate(a.date)[1]

\* Which type-specific table the analysis goes to.
SpecificTable_Swapped(a) ==
    IF toLowerCase(a.type[1]) = "credit" THEN "debit"
    ELSE IF toLowerCase(a.type[1]) = "debit" THEN "credit"
    ELSE "none"
SpecificTable(a) ==
    IF toLowerCase(a.type[1]) = "credit" THEN "credit"
    ELSE IF toLowerCase(a.type[1]) = "debit" THEN "debit"
    ELSE "none"

NextId(table) == Cardinality(table) + 1

UserRow(phone, name, r) ==
    [id |-> NextId(user), phone |-> phone, name |-> name, req |-> r]

TransactionRow(a, date, uid, r) ==
    [id |-> NextId(transaction), amount |-> a.amount[1], type |-> a.type[1],
     description |-> OrNull(a.description), category |-> OrNull(a.category),
     source |-> OrNull(a.source), date |-> date, userId |-> uid, req |-> r]

CreditRow(a, date, uid, r) ==
    [id |-> NextId(credit), amount |-> a.amount[1], source |-> OrNull(a.source),
     description |-> OrNull(a.description), date |-> date, userId |-> uid, req |-> r]

DebitRow(a, date, uid, r) ==
    [id |-> NextId(debit), amount |-> a.amount[1], category |-> OrNull(a.category),
     description |-> OrNull(a.description), date |-> date, userId |-> uid, req |-> r]

\* The 201 response of processTransaction.
Created(q, specific) ==
    Respond(q, 201,
        [EmptyBody EXCEPT !.success = TRUE,
                          !.transaction = q.transaction,
                          !.specificTransaction = specific,
                          !.analysis = Some([confidence |-> q.analysis[1].confidence,
                                             category |-> q.analysis[1].category,
                                             source |-> q.analysis[1].source,
                                             date |-> q.transactionDate])])

\* History: the process request q has been answered 201.
Posted(q) ==
    posted \cup {[id |-> q.id, userPhone |-> q.userPhone,
                  table |-> SpecificTable(q.analysis[1]),
                  amount |-> q.analysis[1].amount[1]]}

\* prisma.user.findUnique({ where: { phone } })
FindUnique_Miss(phone) == {}
FindUnique(phone) == {u \in user : u.phone = phone}

\* The handler body up to its first await: input validation, then the
\* generation call is issued.
ProcessEnter(q) ==
    IF MissingFields(q.text, q.userPhone)
    THEN Respond([q EXCEPT !.entered = TRUE], 400,
                 ErrorBody("Missing required fields: text and userPhone"))
    ELSE [q EXCEPT !.entered = TRUE, !.pc = "analyze", !.genCalls = q.genCalls + 1]

\* checkUserExists up to its first await.
CheckUserEnter(q) ==
    IF q.userPhone = ""
    THEN Respond(q, 400, ErrorBody("Missing required field: userPhone"))
    ELSE [q EXCEPT !.pc = "checkUser", !.mwCalls = q.mwCalls + 1]

\* A response is written synchronously by the step that produces it; the
\* connection is released before any other request is resumed.
Responding == \E r \in Slots : reqs[r].pc = "done"

\* The request on connection r is resumed at position pc.
At_Cancelled(r, pc) == reqs[r].pc = pc /\ ~Responding /\ pc # "analyze"
At(r, pc) == reqs[r].pc = pc /\ ~Responding

\* A request arrives on the first free connection and is numbered.
Free(r) == /\ At(r, "idle")
           /\ \A s \in Slots : s < r => reqs[s].pc # "idle"
           /\ r <= capacity.connections
           /\ received < capacity.requests
\* The number of rows inserted so far (no row is ever deleted or updated).
Version == Cardinality(user) + Cardinality(transaction) + Cardinality(credit)
           + Cardinality(debit)
Arrive(kind) == [IdleReq EXCEPT !.id = received + 1, !.kind = kind, !.since = Version]

\* POST /transactions arrives.
ProcessStart(r) ==
    /\ Free(r)
    /\ received' = received + 1
    /\ \E text \in TextInputs, phone \in PhoneInputs :
         LET q == [Arrive("process") EXCEPT !.text = text, !.userPhone = phone]
         IN reqs' = [reqs EXCEPT ![r] = IF routes = "guarded" THEN CheckUserEnter(q)
                                        ELSE ProcessEnter(q)]
    /\ UNCHANGED <<store, now, routes, nodeEnv, capacity, posted, lastSummary>>

\* The response has been sent and the connection is released.
Close(r) ==
    /\ reqs[r].pc = "done"
    /\ reqs' = [reqs EXCEPT ![r] = IdleReq]
    /\ lastSummary' = IF reqs[r].kind = "summary" /\ reqs[r].thrown = None
                      THEN Some([id |-> reqs[r].id, userPhone |-> reqs[r].userPhone,
                                 since |-> reqs[r].since, status |-> reqs[r].status,
                                 summary |-> reqs[r].body.summary])
                      ELSE lastSummary
    /\ UNCHANGED <<store, received, now, routes, nodeEnv, capacity, posted>>

\* The generation call returns; the analysis is validated.
ProcessAnalyzed_Retry(r) ==
    /\ At(r, "analyze")
    /\ \E out \in GenOutcomes :
         LET q == reqs[r]
             a == analyzeTransaction(q.text, out, now)
             qa == [q EXCEPT !.analysis = Some(a),
                             !.genError = IF out.kind = "ok" THEN None
                                          ELSE Some(FailureMessage(out))]
         IN reqs' = [reqs EXCEPT ![r] =
                IF out.kind # "ok" /\ q.genCalls < 2
                THEN [q EXCEPT !.genCalls = q.genCalls + 1]
                ELSE IF InvalidAnalysis(a)
                THEN Respond(qa, 422,
                        [ErrorBody("Could not clearly analyze the transaction")
                            EXCEPT !.partialAnalysis = Some(a)])
                ELSE [qa EXCEPT !.pc = "findUser", !.storeCalls = q.storeCalls + 1]]
    /\ UNCHANGED <<store, received, now, routes, nodeEnv, capacity, posted, lastSummary>>
ProcessAnalyzed(r) ==
    /\ At(r, "analyze")
    /\ \E out \in GenOutcomes :
         LET q == reqs[r]
             a == analyzeTransaction(q.text, out, now)
             qa == [q EXCEPT !.analysis = Some(a),
                             !.genError = IF out.kind = "ok" THEN None
                                          ELSE Some(FailureMessage(out))]
         IN reqs' = [reqs EXCEPT ![r] =
                IF InvalidAnalysis(a)
                THEN Respond(qa, 422,
                        [ErrorBody("Could not clearly analyze the transaction")
                            EXCEPT !.partialAnalysis = Some(a)])
                ELSE [qa EXCEPT !.pc = "findUser", !.storeCalls = q.storeCalls + 1]]
    /\ UNCHANGED <<store, received, now, routes, nodeEnv, capacity, posted, lastSummary>>

\* prisma.user.findUnique returns.
ProcessFoundUser(r) ==
    /\ At(r, "findUser")
    /\ \E f \in StoreOutcomes :
         LET q == reqs[r]
             found == FindUnique(q.userPhone)
         IN reqs' = [reqs EXCEPT ![r] =
                IF f # NoFault THEN NextError(q, f)
                ELSE IF found = {}
                THEN [q EXCEPT !.pc = "createUser", !.storeCalls = q.storeCalls + 1]
                ELSE [q EXCEPT !.pc = "saveTransaction",
                               !.userId = (CHOOSE u \in found : TRUE).id,
                               !.transactionDate = TransactionDate(q.analysis[1], now),
                               !.storeCalls = q.storeCalls + 1]]
    /\ UNCHANGED <<store, received, now, routes, nodeEnv, capacity, posted, lastSummary>>

\* prisma.user.create returns.
ProcessCreatedUser(r) ==
    /\ At(r, "createUser")
    /\ \E f \in StoreOutcomes :
         LET q == reqs[r]
             row == UserRow(q.userPhone, None, q.id)
         IN IF f # NoFault \/ FindUnique(q.userPhone) # {}
            THEN /\ reqs' = [reqs EXCEPT ![r] =
                        NextError(q, IF f # NoFault THEN f ELSE UniqueViolation)]
                 /\ UNCHANGED user
            ELSE /\ user' = user \cup {row}
                 /\ reqs' = [reqs EXCEPT ![r] =
                        [q EXCEPT !.pc = "saveTransaction", !.userId = row.id,
                                  !.transactionDate = TransactionDate(q.analysis[1], now),
                                  !.storeCalls = q.storeCalls + 1]]
    /\ UNCHANGED <<transaction, credit, debit, received, now, routes, nodeEnv, capacity, posted, lastSummary>>

\* prisma.transaction.create returns.
ProcessSavedTransaction(r) ==
    /\ At(r, "saveTransaction")
    /\ \E f \in StoreOutcomes :
         LET q == reqs[r]
             row == TransactionRow(q.analysis[1], q.transactionDate, q.userId, q.id)
             qt == [q EXCEPT !.transaction = Some(row)]
         IN IF f # NoFault
            THEN /\ reqs' = [reqs EXCEPT ![r] = NextError(q, f)]
                 /\ UNCHANGED <<transaction, posted>>
            ELSE /\ transaction' = transaction \cup {row}
                 /\ reqs' = [reqs EXCEPT ![r] =
                        IF SpecificTable(q.analysis[1]) = "none"
                        THEN Created(qt, None)
                        ELSE [qt EXCEPT !.pc = "saveSpecific",
                                        !.storeCalls = q.storeCalls + 1]]
                 /\ posted' = IF SpecificTable(q.analysis[1]) = "none"
                              THEN Posted(q) ELSE posted
    /\ UNCHANGED <<user, credit, debit, received, now, routes, nodeEnv, capacity, lastSummary>>

\* prisma.credit.create or prisma.debit.create returns.
ProcessSavedSpecific(r) ==
    /\ At(r, "saveSpecific")
    /\ \E f \in StoreOutcomes :
         LET q == reqs[r]
             a == q.analysis[1]
             c == CreditRow(a, q.transactionDate, q.userId, q.id)
             d == DebitRow(a, q.transactionDate, q.userId, q.id)
         IN IF f # NoFault
            THEN /\ reqs' = [reqs EXCEPT ![r] = NextError(q, f)]
                 /\ UNCHANGED <<credit, debit, posted>>
            ELSE IF SpecificTable(a) = "credit"
            THEN /\ credit' = credit \cup {c}
                 /\ reqs' = [reqs EXCEPT ![r] = Created(q, Some(c))]
                 /\ posted' = Posted(q)
                 /\ UNCHANGED debit
            ELSE /\ debit' = debit \cup {d}
                 /\ reqs' = [reqs EXCEPT ![r] = Created(q, Some(d))]
                 /\ posted' = Posted(q)
                 /\ UNCHANGED credit
    /\ UNCHANGED <<user, transaction, received, now, routes, nodeEnv, capacity, lastSummary>>

(* ----------------- queryTransactions (generation client) --------------- *)
\* JSON objects returned by the model for the query schema.
FullAnswer ==
    [answer |-> Some("Your balance is 300."), insights |-> Some(<<"spend less">>),
     suggestedCategories |-> Some(<<"food">>), relevantTransactions |-> Some(<<1>>),
     totalAmount |-> Some(300)]
BareAnswer ==
    [answer |-> None, insights |-> None, suggestedCategories |-> None,
     relevantTransactions |-> None, totalAmount |-> None]
QueryOutputs == {FullAnswer, BareAnswer}

QueryGenOutcomes ==
    [kind : {"throws"}, message : GenMessages, json : {BareAnswer}]
    \cup [kind : {"notext", "badjson"}, message : {""}, json : {BareAnswer}]
    \cup [kind : {"ok"}, message : {""}, json : QueryOutputs]

QueryFailureMessage(out) ==
    CASE out.kind = "throws" -> out.message
      [] out.kind = "notext" -> NoTextQueryMessage
      [] OTHER -> ParseMessage

\* x || d
OrElse(o, d) == IF o = None THEN Some(d) ELSE o

Apology == "Sorry, I encountered an error while analyzing your transactions."

\* The value the query engine returns for a generation outcome.
queryEngine(out) ==
    IF out.kind = "ok"
    THEN [answer |-> IF TruthyStr(out.json.answer) THEN out.json.answer
                     ELSE Some("I couldn't analyze your transactions properly."),
          insights |-> OrElse(out.json.insights, <<>>),
          suggestedCategories |-> OrElse(out.json.suggestedCategories, <<>>),
          relevantTransactions |-> OrElse(out.json.relevantTransactions, <<>>),
          totalAmount |-> IF TruthyNum(out.json.totalAmount) THEN out.json.totalAmount
                          ELSE Some(0),
          error |-> None]
    ELSE [answer |-> Some(Apology), insights |-> None, suggestedCategories |-> None,
          relevantTransactions |-> None, totalAmount |-> None,
          error |-> Some(QueryFailureMessage(out))]

(* ------------------- queryTransactions (controller) -------------------- *)
\* The rows of a table owned by a user.
OwnedBy_Nobody(table, uid) == {}
OwnedBy(table, uid) == {t \in table : t.userId = uid}

\* findMany({ where: { userId }, orderBy: { date: 'desc' } }): the rows in
\* descending date order; the store orders rows of equal date as it likes.
IsDateDesc_Ascending(seq) == \A i, j \in 1..Len(seq) : i < j => seq[i].date <= seq[j].date
IsDateDesc(seq) == \A i, j \in 1..Len(seq) : i < j => seq[i].date >= seq[j].date
FindManyDesc(rows) ==
    {seq \in [1..Cardinality(rows) -> rows] :
        /\ \A x \in rows : \E i \in 1..Cardinality(rows) : seq[i] = x
        /\ IsDateDesc(seq)}

NoTransactionsAnswer == "You don't have any transactions yet."

\* transactions.length === 0
NoTransactions_OffByOne(list) == Len(list) = 1
NoTransactions(list) == Len(list) = 0

QueryData(answer, insights, cats, relevant, total, count) ==
    [answer |-> answer, insights |-> insights, suggestedCategories |-> cats,
     relevantTransactions |-> relevant, totalAmount |-> total, transactionCount |-> count]

\* The 200 response without a model call.
CannedAnswer(q) ==
    Respond(q, 200, [EmptyBody EXCEPT !.success = TRUE,
        !.data = Some(QueryData(Some(NoTransactionsAnswer), None, None, None, None, None))])

\* The 200 response shaped from the engine's result.
Answered_Unshaped(q, an) ==
    Respond(q, 200, [EmptyBody EXCEPT !.success = TRUE,
        !.data = Some(QueryData(an.answer, an.insights, an.suggestedCategories,
                                an.relevantTransactions, an.totalAmount,
                                Some(Len(q.fetched[1]))))])
Answered(q, an) ==
    Respond(q, 200, [EmptyBody EXCEPT !.success = TRUE,
        !.data = Some(QueryData(an.answer, an.insights, an.suggestedCategories,
                                OrElse(an.relevantTransactions, <<>>),
                                IF TruthyNum(an.totalAmount) THEN an.totalAmount ELSE Some(0),
                                Some(Len(q.fetched[1]))))])

\* The handler body up to its first await.
QueryEnter(q) ==
    IF MissingFields(q.question, q.userPhone)
    THEN Respond([q EXCEPT !.entered = TRUE], 400,
                 ErrorBody("Missing required fields: question and userPhone"))
    ELSE [q EXCEPT !.entered = TRUE, !.pc = "queryFindUser", !.storeCalls = q.storeCalls + 1]

\* POST /transactions/query arrives.
QueryStart(r) ==
    /\ Free(r)
    /\ received' = received + 1
    /\ \E question \in QuestionInputs, phone \in PhoneInputs :
         LET q == [Arrive("query") EXCEPT !.question = question, !.userPhone = phone]
         IN reqs' = [reqs EXCEPT ![r] = IF routes = "guarded" THEN CheckUserEnter(q)
                                        ELSE QueryEnter(q)]
    /\ UNCHANGED <<store, now, routes, nodeEnv, capacity, posted, lastSummary>>

\* prisma.user.findUnique returns.
QueryFoundUser(r) ==
    /\ At(r, "queryFindUser")
    /\ \E f \in StoreOutcomes :
         LET q == reqs[r]
             found == FindUnique(q.userPhone)
         IN reqs' = [reqs EXCEPT ![r] =
                IF f # NoFault THEN NextError(q, f)
                ELSE IF found = {} THEN Respond(q, 404, ErrorBody("User not found"))
                ELSE [q EXCEPT !.pc = "queryFetch",
                               !.userId = (CHOOSE u \in found : TRUE).id,
                               !.storeCalls = q.storeCalls + 1]]
    /\ UNCHANGED <<store, received, now, routes, nodeEnv, capacity, posted, lastSummary>>

\* prisma.transaction.findMany returns.
QueryFetched(r) ==
    /\ At(r, "queryFetch")
    /\ \E f \in StoreOutcomes, list \in FindManyDesc(OwnedBy(transaction, reqs[r].userId)) :
         LET q == [reqs[r] EXCEPT !.fetched = Some(list)]
         IN reqs' = [reqs EXCEPT ![r] =
                IF f # NoFault THEN NextError(q, f)
                ELSE IF NoTransactions(list) THEN CannedAnswer(q)
                ELSE [q EXCEPT !.pc = "queryGenerate", !.genCalls = q.genCalls + 1]]
    /\ UNCHANGED <<store, received, now, routes, nodeEnv, capacity, posted, lastSummary>>

\* The generation call of the query engine returns.
QueryAnswered(r) ==
    /\ At(r, "queryGenerate")
    /\ \E out \in QueryGenOutcomes :
         LET q == [reqs[r] EXCEPT !.genError = IF out.kind = "ok" THEN None
                                               ELSE Some(QueryFailureMessage(out))]
         IN reqs' = [reqs EXCEPT ![r] = Answered(q, queryEngine(out))]
    /\ UNCHANGED <<store, received, now, routes, nodeEnv, capacity, posted, lastSummary>>

(* ------------------------------ createUser ----------------------------- *)
\* The 500 response of createUser's own catch block.
CreateUserFailed_Boundary(q, err) == NextError(q, err)
CreateUserFailed(q, err) ==
    Respond([q EXCEPT !.thrown = Some(err)], 500,
            [ErrorBody("Error creating user") EXCEPT !.details = Some(err.message)])

\* POST /users arrives.
CreateUserStart(r) ==
    /\ Free(r)
    /\ received' = received + 1
    /\ \E phone \in PhoneInputs, name \in NameInputs :
         LET q == [Arrive("createUser") EXCEPT !.userPhone = phone, !.name = name,
                                               !.entered = TRUE]
         IN reqs' = [reqs EXCEPT ![r] =
                IF phone = "" THEN Respond(q, 400, ErrorBody("Phone number is required"))
                ELSE [q EXCEPT !.pc = "createUserFind", !.storeCalls = 1]]
    /\ UNCHANGED <<store, now, routes, nodeEnv, capacity, posted, lastSummary>>

\* prisma.user.findUnique returns.
CreateUserChecked(r) ==
    /\ At(r, "createUserFind")
    /\ \E f \in StoreOutcomes :
         LET q == reqs[r]
         IN reqs' = [reqs EXCEPT ![r] =
                IF f # NoFault THEN CreateUserFailed(q, f)
                ELSE IF FindUnique(q.userPhone) # {}
                THEN Respond(q, 400, ErrorBody("User with this phone number already exists"))
                ELSE [q EXCEPT !.pc = "createUserInsert", !.storeCalls = 2]]
    /\ UNCHANGED <<store, received, now, routes, nodeEnv, capacity, posted, lastSummary>>

\* prisma.user.create returns.
CreateUserInserted(r) ==
    /\ At(r, "createUserInsert")
    /\ \E f \in StoreOutcomes :
         LET q == reqs[r]
             row == UserRow(q.userPhone, IF q.name = "" THEN None ELSE Some(q.name), q.id)
         IN IF f # NoFault \/ FindUnique(q.userPhone) # {}
            THEN /\ reqs' = [reqs EXCEPT ![r] =
                        CreateUserFailed(q, IF f # NoFault THEN f ELSE UniqueViolation)]
                 /\ UNCHANGED user
            ELSE /\ user' = user \cup {row}
                 /\ reqs' = [reqs EXCEPT ![r] =
                        Respond([q EXCEPT !.userId = row.id], 201,
                                [EmptyBody EXCEPT !.success = TRUE,
                                                  !.message = "User created successfully",
                                                  !.user = Some(row)])]
    /\ UNCHANGED <<transaction, credit, debit, received, now, routes, nodeEnv, capacity, posted, lastSummary>>

(* ------------------------- read-side accessors ------------------------- *)
\* The data payload of a response is kept in one body field per shape: data
\* (query answer), rows (a list of rows), summary, byCategory.

CategoryFilters == {"food", "GIFT"}

\* req.params as the mounted route table fills it: the routes of
\* src/routes/transaction.routes.js name no path parameter, the routes with
\* /:userPhone and /:category take both from the path.
Params(q) ==
    IF routes = "direct" THEN [userPhone |-> q.userPhone, category |-> q.category]
    ELSE [userPhone |-> "", category |-> ""]

\* The characters of the category texts of the model.
Chars(s) ==
    CASE s = "food" -> <<"f", "o", "o", "d">>
      [] s = "Food" -> <<"F", "o", "o", "d">>
      [] s = "FOOD delivery" -> <<"F", "O", "O", "D", " ", "d", "e", "l", "i", "v", "e", "r", "y">>
      [] s = "gift" -> <<"g", "i", "f", "t">>
      [] s = "GIFT" -> <<"G", "I", "F", "T">>
      [] OTHER -> <<s>>
LowerChar(c) ==
    CASE c = "D" -> "d" [] c = "F" -> "f" [] c = "G" -> "g"
      [] c = "I" -> "i" [] c = "O" -> "o" [] c = "T" -> "t"
      [] OTHER -> c
Lower(cs) == [i \in 1..Len(cs) |-> LowerChar(cs[i])]
IsSubstring(needle, hay) ==
    \E i \in 0..(Len(hay) - Len(needle)) : SubSeq(hay, i + 1, i + Len(needle)) = needle

\* category: { contains: filter, mode: 'insensitive' } on a nullable column.
CategoryMatches_CaseSensitive(stored, filter) ==
    stored # None /\ IsSubstring(Chars(filter), Chars(stored[1]))
CategoryMatches(stored, filter) ==
    stored # None /\ IsSubstring(Lower(Chars(filter)), Lower(Chars(stored[1])))

\* findMany without orderBy: the store returns the rows in an order of its own.
FindMany(rows) ==
    {seq \in [1..Cardinality(rows) -> rows] :
        \A x \in rows : \E i \in 1..Cardinality(rows) : seq[i] = x}

\* list.reduce((acc, row) => acc + row.amount, 0)
RECURSIVE SumAmounts_Count(_)
SumAmounts_Count(list) ==
    IF Len(list) = 0 THEN 0
    ELSE SumAmounts_Count(SubSeq(list, 1, Len(list) - 1)) + 1
RECURSIVE SumAmounts(_)
SumAmounts(list) ==
    IF Len(list) = 0 THEN 0
    ELSE SumAmounts(SubSeq(list, 1, Len(list) - 1)) + list[Len(list)].amount

\* A value of a breakdown object: a number n is Number(n); a string is the
\* text of an inherited function followed by the decimal texts of parts.
Number(n) == [string |-> FALSE, parts |-> <<n>>]
\* The properties an object literal {} inherits from Object.prototype, among
\* the keys of the model; their values are functions.
PrototypeKeys == {"constructor"}

\* (x || 0) + amount for x = acc[key]: an own number is added to, a missing
\* key counts 0, an inherited function or a string is concatenated with the
\* amount's text.
Plus(acc, key, amount) ==
    IF key \in DOMAIN acc
    THEN IF acc[key].string
         THEN [string |-> TRUE, parts |-> Append(acc[key].parts, amount)]
         ELSE Number((IF acc[key].parts[1] = 0 THEN 0 ELSE acc[key].parts[1]) + amount)
    ELSE IF key \in PrototypeKeys
    THEN [string |-> TRUE, parts |-> <<amount>>]
    ELSE Number(0 + amount)

\* acc[key] = (acc[key] || 0) + amount
Accumulate(acc, key, amount) ==
    [k \in DOMAIN acc \cup {key} |-> IF k = key THEN Plus(acc, key, amount) ELSE acc[k]]

\* debits.reduce(..., {}) keyed by debit.category || 'uncategorized'
RECURSIVE CategoryBreakdown(_)
CategoryBreakdown(debits) ==
    IF Len(debits) = 0 THEN <<>>
    ELSE LET d == debits[Len(debits)]
         IN Accumulate(CategoryBreakdown(SubSeq(debits, 1, Len(debits) - 1)),
                       IF TruthyStr(d.category) THEN d.category[1] ELSE "uncategorized",
                       d.amount)

\* credits.reduce(..., {}) keyed by credit.source || 'unknown'
RECURSIVE SourceBreakdown(_)
SourceBreakdown(credits) ==
    IF Len(credits) = 0 THEN <<>>
    ELSE LET c == credits[Len(credits)]
         IN Accumulate(SourceBreakdown(SubSeq(credits, 1, Len(credits) - 1)),
                       IF TruthyStr(c.source) THEN c.source[1] ELSE "unknown",
                       c.amount)

\* balance = totalCredit - totalDebit
Balance_Reversed(totalCredit, totalDebit) == totalDebit - totalCredit
Balance(totalCredit, totalDebit) == totalCredit - totalDebit

\* The data of the summary response.
SummaryData_Stamped(debits, credits) ==
    [totalDebit |-> SumAmounts(debits), totalCredit |-> SumAmounts(credits),
     balance |-> Balance(SumAmounts(credits), SumAmounts(debits)),
     debitCount |-> Len(debits) + now, creditCount |-> Len(credits),
     categoryBreakdown |-> CategoryBreakdown(debits),
     sourceBreakdown |-> SourceBreakdown(credits)]
SummaryData(debits, credits) ==
    [totalDebit |-> SumAmounts(debits), totalCredit |-> SumAmounts(credits),
     balance |-> Balance(SumAmounts(credits), SumAmounts(debits)),
     debitCount |-> Len(debits), creditCount |-> Len(credits),
     categoryBreakdown |-> CategoryBreakdown(debits),
     sourceBreakdown |-> SourceBreakdown(credits)]

\* The data of the by-category response.
CategoryData(transactions, debits, category) ==
    [transactions |-> transactions, debits |-> debits, category |-> category,
     totalAmount |-> SumAmounts(debits), count |-> Len(transactions)]

\* The handler body of an accessor up to its first await.
AccessorEnter(q) ==
    IF q.kind = "category"
    THEN IF MissingFields(Params(q).userPhone, Params(q).category)
         THEN Respond([q EXCEPT !.entered = TRUE], 400,
                      ErrorBody("User phone number and category are required"))
         ELSE [q EXCEPT !.entered = TRUE, !.pc = "categoryFindUser",
                        !.storeCalls = q.storeCalls + 1]
    ELSE IF Params(q).userPhone = ""
         THEN Respond([q EXCEPT !.entered = TRUE], 400,
                      ErrorBody("User phone number is required"))
         ELSE [q EXCEPT !.entered = TRUE, !.storeCalls = q.storeCalls + 1,
                        !.pc = CASE q.kind = "list" -> "listFindUser"
                                 [] q.kind = "credits" -> "creditsFindUser"
                                 [] q.kind = "debits" -> "debitsFindUser"
                                 [] OTHER -> "summaryFindUser"]

\* A GET request of the transactions router arrives: the phone is a path
\* parameter, or a query parameter read by checkUserExists.
AccessorStart(r, kind, categories) ==
    /\ Free(r)
    /\ received' = received + 1
    /\ \E phone \in (IF routes = "direct" THEN Phones ELSE PhoneInputs),
          category \in (IF routes = "direct" THEN categories ELSE {""}) :
         LET q == [Arrive(kind) EXCEPT !.userPhone = phone, !.category = category]
         IN reqs' = [reqs EXCEPT ![r] = IF routes = "guarded" THEN CheckUserEnter(q)
                                        ELSE AccessorEnter(q)]
    /\ UNCHANGED <<store, now, routes, nodeEnv, capacity, posted, lastSummary>>

\* prisma.user.findUnique of an accessor returns.
AccessorFoundUser(r, pc, then) ==
    /\ At(r, pc)
    /\ \E f \in StoreOutcomes :
         LET q == reqs[r]
             found == FindUnique(Params(q).userPhone)
         IN reqs' = [reqs EXCEPT ![r] =
                IF f # NoFault THEN NextError(q, f)
                ELSE IF found = {} THEN Respond(q, 404, ErrorBody("User not found"))
                ELSE [q EXCEPT !.pc = then,
                               !.userId = (CHOOSE u \in found : TRUE).id,
                               !.storeCalls = q.storeCalls + 1]]
    /\ UNCHANGED <<store, received, now, routes, nodeEnv, capacity, posted, lastSummary>>

\* The findMany of a list accessor returns and the rows are answered.
AccessorFetched(r, pc, table) ==
    /\ At(r, pc)
    /\ \E f \in StoreOutcomes, list \in FindManyDesc(OwnedBy(table, reqs[r].userId)) :
         LET q == reqs[r]
         IN reqs' = [reqs EXCEPT ![r] =
                IF f # NoFault THEN NextError(q, f)
                ELSE Respond(q, 200, [EmptyBody EXCEPT !.success = TRUE,
                                                       !.rows = Some(list)])]
    /\ UNCHANGED <<store, received, now, routes, nodeEnv, capacity, posted, lastSummary>>

\* getTransactions
GetTransactionsStart(r) == AccessorStart(r, "list", {""})
GetTransactionsFoundUser(r) == AccessorFoundUser(r, "listFindUser", "listFetch")
GetTransactionsFetched(r) == AccessorFetched(r, "listFetch", transaction)

\* getUserCredits
GetUserCreditsStart(r) == AccessorStart(r, "credits", {""})
GetUserCreditsFoundUser(r) == AccessorFoundUser(r, "creditsFindUser", "creditsFetch")
GetUserCreditsFetched(r) == AccessorFetched(r, "creditsFetch", credit)

\* getUserDebits
GetUserDebitsStart(r) == AccessorStart(r, "debits", {""})
GetUserDebitsFoundUser(r) == AccessorFoundUser(r, "debitsFindUser", "debitsFetch")
GetUserDebitsFetched(r) == AccessorFetched(r, "debitsFetch", debit)

\* getTransactionSummary
SummaryStart(r) == AccessorStart(r, "summary", {""})
SummaryFoundUser(r) == AccessorFoundUser(r, "summaryFindUser", "summaryDebits")

\* prisma.debit.findMany returns.
SummaryFetchedDebits(r) ==
    /\ At(r, "summaryDebits")
    /\ \E f \in StoreOutcomes, debits \in FindMany(OwnedBy(debit, reqs[r].userId)) :
         LET q == reqs[r]
         IN reqs' = [reqs EXCEPT ![r] =
                IF f # NoFault THEN NextError(q, f)
                ELSE [q EXCEPT !.pc = "summaryCredits", !.fetched = Some(debits),
                               !.storeCalls = q.storeCalls + 1]]
    /\ UNCHANGED <<store, received, now, routes, nodeEnv, capacity, posted, lastSummary>>

\* prisma.credit.findMany returns; the totals and breakdowns are computed.
SummaryFetchedCredits(r) ==
    /\ At(r, "summaryCredits")
    /\ \E f \in StoreOutcomes, credits \in FindMany(OwnedBy(credit, reqs[r].userId)) :
         LET q == reqs[r]
         IN reqs' = [reqs EXCEPT ![r] =
                IF f # NoFault THEN NextError(q, f)
                ELSE Respond(q, 200,
                        [EmptyBody EXCEPT !.success = TRUE,
                                          !.summary = Some(SummaryData(q.fetched[1], credits))])]
    /\ UNCHANGED <<store, received, now, routes, nodeEnv, capacity, posted, lastSummary>>

\* getTransactionsByCategory
CategoryStart(r) == AccessorStart(r, "category", CategoryFilters)
CategoryFoundUser(r) == AccessorFoundUser(r, "categoryFindUser", "categoryTransactions")

\* The rows of a user's table whose category contains the filter.
InCategory(table, uid, filter) ==
    {t \in OwnedBy(table, uid) : CategoryMatches(t.category, filter)}

\* prisma.transaction.findMany with the category filter returns.
CategoryFetchedTransactions(r) ==
    /\ At(r, "categoryTransactions")
    /\ \E f \in StoreOutcomes,
          list \in FindManyDesc(InCategory(transaction, reqs[r].userId,
                                           Params(reqs[r]).category)) :
         LET q == reqs[r]
         IN reqs' = [reqs EXCEPT ![r] =
                IF f # NoFault THEN NextError(q, f)
                ELSE [q EXCEPT !.pc = "categoryDebits", !.fetched = Some(list),
                               !.storeCalls = q.storeCalls + 1]]
    /\ UNCHANGED <<store, received, now, routes, nodeEnv, capacity, posted, lastSummary>>

\* prisma.debit.findMany with the category filter returns.
CategoryFetchedDebits(r) ==
    /\ At(r, "categoryDebits")
    /\ \E f \in StoreOutcomes,
          debits \in FindManyDesc(InCategory(debit, reqs[r].userId,
                                             Params(reqs[r]).category)) :
         LET q == reqs[r]
         IN reqs' = [reqs EXCEPT ![r] =
                IF f # NoFault THEN NextError(q, f)
                ELSE Respond(q, 200,
                        [EmptyBody EXCEPT !.success = TRUE,
                            !.byCategory = Some(CategoryData(q.fetched[1], debits,
                                                             Params(q).category))])]
    /\ UNCHANGED <<store, received, now, routes, nodeEnv, capacity, posted, lastSummary>>

(* ---------------------------- getUserByPhone --------------------------- *)
\* The handler answers with req.user, the row attached by checkUserExists.
UserSearchEnter(q) ==
    LET found == FindUnique(q.userPhone)
    IN IF found = {} THEN Respond([q EXCEPT !.entered = TRUE], 404, ErrorBody("User not found"))
       ELSE Respond([q EXCEPT !.entered = TRUE, !.userId = (CHOOSE u \in found : TRUE).id],
                    200, [EmptyBody EXCEPT !.success = TRUE,
                                           !.user = Some(CHOOSE u \in found : TRUE)])

\* GET /users/search arrives; the route runs checkUserExists first.
UserSearchStart(r) ==
    /\ Free(r)
    /\ received' = received + 1
    /\ \E phone \in PhoneInputs :
         reqs' = [reqs EXCEPT ![r] =
                     CheckUserEnter([Arrive("search") EXCEPT !.userPhone = phone])]
    /\ UNCHANGED <<store, now, routes, nodeEnv, capacity, posted, lastSummary>>

(* --------------------------- checkUserExists --------------------------- *)
\* next(): the handler of the route runs up to its first await.
HandlerEnter(q) ==
    IF q.kind = "process" THEN ProcessEnter(q)
    ELSE IF q.kind = "query" THEN QueryEnter(q)
    ELSE IF q.kind = "search" THEN UserSearchEnter(q)
    ELSE AccessorEnter(q)

\* The middleware's prisma.user.findUnique returns.
CheckUserDone_Upsert(r) ==
    /\ At(r, "checkUser")
    /\ \E f \in StoreOutcomes :
         LET q == reqs[r]
         IN /\ reqs' = [reqs EXCEPT ![r] =
                   IF f # NoFault
                   THEN Respond([q EXCEPT !.thrown = Some(f)], 500,
                                ErrorBody("Internal server error"))
                   ELSE HandlerEnter(q)]
            /\ user' = IF f = NoFault /\ FindUnique(q.userPhone) = {}
                       THEN user \cup {UserRow(q.userPhone, None, q.id)} ELSE user
    /\ UNCHANGED <<transaction, credit, debit, received, now, routes, nodeEnv, capacity,
                   posted, lastSummary>>
CheckUserDone(r) ==
    /\ At(r, "checkUser")
    /\ \E f \in StoreOutcomes :
         LET q == reqs[r]
         IN reqs' = [reqs EXCEPT ![r] =
                IF f # NoFault
                THEN Respond([q EXCEPT !.thrown = Some(f)], 500,
                             ErrorBody("Internal server error"))
                ELSE IF FindUnique(q.userPhone) = {}
                THEN Respond(q, 404, ErrorBody("User not found. Please register first."))
                ELSE HandlerEnter(q)]
    /\ UNCHANGED <<store, received, now, routes, nodeEnv, capacity, posted, lastSummary>>

(* ------------------------------- clock --------------------------------- *)
Tick ==
    /\ ~Responding
    /\ now < MaxClock
    /\ now' = now + 1
    /\ UNCHANGED <<store, reqs, received, routes, nodeEnv, capacity, posted, lastSummary>>

(* ---------------------------- specification ---------------------------- *)
Init ==
    /\ user = {}
    /\ transaction = {}
    /\ credit = {}
    /\ debit = {}
    /\ reqs = [r \in Slots |-> IdleReq]
    /\ received = 0
    /\ now = 1
    /\ routes \in {"guarded", "direct"}
    /\ nodeEnv \in {"production", "development"}
    /\ capacity = [requests |-> MaxReq, connections |-> 2]
    /\ posted = {}
    /\ lastSummary = None

Next ==
    \/ Tick
    \/ \E r \in Slots :
         \/ Close(r)
         \/ ProcessStart(r)
         \/ CheckUserDone(r)
         \/ ProcessAnalyzed(r)
         \/ ProcessFoundUser(r)
         \/ ProcessCreatedUser(r)
         \/ ProcessSavedTransaction(r)
         \/ ProcessSavedSpecific(r)
         \/ QueryStart(r)
         \/ QueryFoundUser(r)
         \/ QueryFetched(r)
         \/ QueryAnswered(r)
         \/ CreateUserStart(r)
         \/ CreateUserChecked(r)
         \/ CreateUserInserted(r)
         \/ GetTransactionsStart(r)
         \/ GetTransactionsFoundUser(r)
         \/ GetTransactionsFetched(r)
         \/ GetUserCreditsStart(r)
         \/ GetUserCreditsFoundUser(r)
         \/ GetUserCreditsFetched(r)
         \/ GetUserDebitsStart(r)
         \/ GetUserDebitsFoundUser(r)
         \/ GetUserDebitsFetched(r)
         \/ SummaryStart(r)
         \/ SummaryFoundUser(r)
         \/ SummaryFetchedDebits(r)
         \/ SummaryFetchedCredits(r)
         \/ CategoryStart(r)
         \/ CategoryFoundUser(r)
         \/ CategoryFetchedTransactions(r)
         \/ CategoryFetchedDebits(r)
         \/ UserSearchStart(r)

Spec == Init /\ [][Next]_vars

\* The same server receiving MaxSerialReq requests one at a time.
SerialInit ==
    /\ user = {}
    /\ transaction = {}
    /\ credit = {}
    /\ debit = {}
    /\ reqs = [r \in Slots |-> IdleReq]
    /\ received = 0
    /\ now = 1
    /\ routes \in {"guarded", "direct"}
    /\ nodeEnv \in {"production", "development"}
    /\ capacity = [requests |-> MaxSerialReq, connections |-> 1]
    /\ posted = {}
    /\ lastSummary = None

SerialSpec == SerialInit /\ [][Next]_vars

\* Every call to the store or to the generation service returns or throws,
\* and every response written is sent: a request that can take its next step
\* takes it.
Resume(r) ==
    \/ Close(r)
    \/ CheckUserDone(r)
    \/ ProcessAnalyzed(r)
    \/ ProcessFoundUser(r)
    \/ ProcessCreatedUser(r)
    \/ ProcessSavedTransaction(r)
    \/ ProcessSavedSpecific(r)
    \/ QueryFoundUser(r)
    \/ QueryFetched(r)
    \/ QueryAnswered(r)
    \/ CreateUserChecked(r)
    \/ CreateUserInserted(r)
    \/ GetTransactionsFoundUser(r)
    \/ GetTransactionsFetched(r)
    \/ GetUserCreditsFoundUser(r)
    \/ GetUserCreditsFetched(r)
    \/ GetUserDebitsFoundUser(r)
    \/ GetUserDebitsFetched(r)
    \/ SummaryFoundUser(r)
    \/ SummaryFetchedDebits(r)
    \/ SummaryFetchedCredits(r)
    \/ CategoryFoundUser(r)
    \/ CategoryFetchedTransactions(r)
    \/ CategoryFetchedDebits(r)

\* The server in production mode (NODE_ENV shapes error bodies only).
LiveInit ==
    /\ user = {}
    /\ transaction = {}
    /\ credit = {}
    /\ debit = {}
    /\ reqs = [r \in Slots |-> IdleReq]
    /\ received = 0
    /\ now = 1
    /\ routes \in {"guarded", "direct"}
    /\ nodeEnv = "production"
    /\ capacity = [requests |-> MaxLiveReq, connections |-> 2]
    /\ posted = {}
    /\ lastSummary = None

LiveSpec == LiveInit /\ [][Next]_vars /\ \A r \in Slots : WF_vars(Resume(r))

(* ------------------------------ properties ----------------------------- *)
\* The rows of a table written by the request numbered id.
RowsBy(table, id) == {t \in table : t.req = id}
WroteNothing(q) ==
    /\ RowsBy(user, q.id) = {}
    /\ RowsBy(transaction, q.id) = {}
    /\ RowsBy(credit, q.id) = {}
    /\ RowsBy(debit, q.id) = {}
Answered201(q) == q.kind = "process" /\ q.pc = "done" /\ q.status = 201
ProcessDone(q) == q.kind = "process" /\ q.pc = "done" /\ q.entered
FullAnalysis(q) ==
    /\ q.analysis # None
    /\ TruthyStr(q.analysis[1].type)
    /\ q.analysis[1].type[1] \in {"credit", "debit"}
    /\ TruthyNum(q.analysis[1].amount)

\* C1: a process request with non-empty text and phone, an analysis of type
\* credit or debit with a non-zero amount and no failing store call is answered
\* 201 and has written exactly one Transaction row and exactly one row of the
\* matching table (none in the other); both rows carry the analysis amount,
\* the same normalized date and the same owner, the user of the request's
\* phone, and the response returns those two rows.
C1_OneRowInEachLedger ==
    \A r \in Slots :
        LET q == reqs[r]
            a == q.analysis[1]
            txs == RowsBy(transaction, q.id)
            own == IF a.type[1] = "credit" THEN RowsBy(credit, q.id) ELSE RowsBy(debit, q.id)
            other == IF a.type[1] = "credit" THEN RowsBy(debit, q.id) ELSE RowsBy(credit, q.id)
        IN (ProcessDone(q) /\ q.text # "" /\ q.userPhone # "" /\ q.thrown = None
                /\ FullAnalysis(q))
           => /\ q.status = 201
              /\ Cardinality(txs) = 1
              /\ Cardinality(own) = 1
              /\ other = {}
              /\ \A t \in txs, s \in own :
                    /\ t.amount = a.amount[1] /\ s.amount = a.amount[1]
                    /\ t.date = s.date
                    /\ ParseDate(a.date) # None => t.date = a.date[1].t
                    /\ ParseDate(a.date) = None => t.date \in 1..now
                    /\ t.userId = s.userId
                    /\ \E u \in user : u.id = t.userId /\ u.phone = q.userPhone
                    /\ q.body.transaction = Some(t)
                    /\ q.body.specificTransaction = Some(s)
                    /\ q.body.analysis # None /\ q.body.analysis[1].date = t.date

C1_Witness ==
    \E r \in Slots :
        /\ Answered201(reqs[r]) /\ FullAnalysis(reqs[r])
        /\ reqs[r].analysis[1].type[1] = "debit"
        /\ Cardinality(RowsBy(debit, reqs[r].id)) = 1
        /\ Cardinality(RowsBy(transaction, reqs[r].id)) = 1

\* C2: when the generation call fails the analyzer returns the degraded
\* analysis (type "unknown", amount 0); process answers 422 with that analysis
\* echoed as partialAnalysis and the request writes no User, Transaction,
\* Credit or Debit row.
C2_DegradedIs422 ==
    \A r \in Slots :
        LET q == reqs[r]
        IN (q.kind = "process" /\ q.genError # None)
           => /\ q.pc = "done" /\ q.status = 422
              /\ q.analysis # None
              /\ q.analysis[1].type = Some("unknown") /\ q.analysis[1].amount = Some(0)
              /\ q.body.partialAnalysis = q.analysis
              /\ WroteNothing(q)

C2_Witness ==
    \E r \in Slots :
        /\ reqs[r].kind = "process" /\ reqs[r].genError # None
        /\ reqs[r].status = 422
        /\ FindUnique(reqs[r].userPhone) = {}

\* C3: a POST /transactions request for a phone that has no User row, with
\* text and an analysis that passes validation and no failing store call, is
\* answered 201 and leaves exactly one User row for the phone, with name unset,
\* which owns the new Transaction row.
C3_ImplicitUpsert ==
    \A r \in Slots :
        LET q == reqs[r]
        IN (q.kind = "process" /\ q.pc = "done" /\ q.text # "" /\ q.userPhone # ""
                /\ q.thrown = None /\ q.status # 422
                /\ \A u \in user : u.phone = q.userPhone => u.req = q.id)
           => /\ q.status = 201
              /\ Cardinality(FindUnique(q.userPhone)) = 1
              /\ \A u \in FindUnique(q.userPhone) :
                    /\ u.name = None
                    /\ \A t \in RowsBy(transaction, q.id) : t.userId = u.id

\* C4: when no process request is in flight, every user has as many
\* credit-typed Transaction rows as Credit rows and as many debit-typed
\* Transaction rows as Debit rows.
TypedRows(uid, type) == {t \in OwnedBy(transaction, uid) : t.type = type}
ProcessInFlight == \E r \in Slots : reqs[r].kind = "process" /\ reqs[r].pc # "done"
C4_LedgersAgree ==
    ~ProcessInFlight
    => \A u \in user :
          /\ Cardinality(TypedRows(u.id, "credit")) = Cardinality(OwnedBy(credit, u.id))
          /\ Cardinality(TypedRows(u.id, "debit")) = Cardinality(OwnedBy(debit, u.id))

\* C5: every Transaction row has amount >= 0 and type credit or debit.
C5_TransactionRowsValid ==
    \A t \in transaction : t.amount >= 0 /\ t.type \in {"credit", "debit"}

\* C6: an analysis with type credit or debit and amount 0, or with an absent
\* or empty type, is answered 422 and the request writes no row.
C6_ZeroAmountIs422 ==
    \A r \in Slots :
        LET q == reqs[r]
            a == q.analysis[1]
        IN (q.kind = "process" /\ q.analysis # None
                /\ \/ ~TruthyStr(a.type)
                   \/ a.type[1] \in {"credit", "debit"} /\ a.amount = Some(0))
           => /\ q.pc = "done" /\ q.status = 422
              /\ q.body.partialAnalysis = q.analysis
              /\ WroteNothing(q)

C6_Witness ==
    \E r \in Slots :
        /\ reqs[r].kind = "process" /\ reqs[r].analysis # None
        /\ reqs[r].analysis[1].type = Some("credit")
        /\ reqs[r].analysis[1].amount = Some(0)
        /\ reqs[r].status = 422

C8_AnalyzerNeverFails ==
    [][\A r \in Slots :
          (reqs[r].pc = "analyze" /\ reqs'[r].genError # None)
          => /\ reqs'[r].genError[1] \in GenMessages \cup {NoTextMessage, ParseMessage}
             /\ reqs'[r].thrown = None /\ reqs'[r].passed = 0
             /\ reqs'[r].analysis =
                  Some([type |-> Some("unknown"), amount |-> Some(0),
                        description |-> Some(reqs[r].text),
                        category |-> Some("unknown"), source |-> Some("unknown"),
                        date |-> Some([iso |-> TRUE, t |-> now]),
                        confidence |-> Some(0), error |-> reqs'[r].genError])]_vars

C8_Witness ==
    \E r \in Slots :
        /\ reqs[r].kind = "process"
        /\ reqs[r].genError = Some(NoTextMessage)
        /\ reqs[r].analysis # None
        /\ reqs[r].analysis[1].error = Some(NoTextMessage)

\* C9: a process or query request whose generation call failed with message m
\* is answered with a 4xx or a 500 and no field of the response carries m.
CarriesMessage(b, m) ==
    \/ b.message = m
    \/ b.details = Some(m)
    \/ b.stack = Some(m)
    \/ b.partialAnalysis # None /\ b.partialAnalysis[1].error = Some(m)
C9_NoRawModelError ==
    \A r \in Slots :
        LET q == reqs[r]
        IN (q.kind \in {"process", "query"} /\ q.pc = "done" /\ q.genError # None)
           => /\ q.status \in 400..500
              /\ ~CarriesMessage(q.body, q.genError[1])

\* C10: a query for an existing user who owns no Transaction row is answered
\* 200 with exactly the answer "You don't have any transactions yet." and
\* issues no generation call.
C10_EmptyLedgerShortCircuit ==
    \A r \in Slots :
        LET q == reqs[r]
        IN (q.kind = "query" /\ q.pc = "done" /\ q.thrown = None /\ q.userId # 0
                /\ OwnedBy(transaction, q.userId) = {})
           => /\ q.status = 200
              /\ q.body.success
              /\ q.body.data = Some([answer |-> Some("You don't have any transactions yet."),
                                     insights |-> None, suggestedCategories |-> None,
                                     relevantTransactions |-> None, totalAmount |-> None,
                                     transactionCount |-> None])
              /\ q.genCalls = 0

C10_Witness ==
    \E r \in Slots :
        /\ reqs[r].kind = "query" /\ reqs[r].pc = "done" /\ reqs[r].status = 200
        /\ reqs[r].userId # 0
        /\ OwnedBy(transaction, reqs[r].userId) = {}
        /\ reqs[r].genCalls = 0

C12_QueryEngineNeverFails ==
    \A r \in Slots :
        LET q == reqs[r]
            d == q.body.data[1]
        IN (q.kind = "query" /\ q.genError # None)
           => /\ q.pc = "done" /\ q.status = 200
              /\ q.thrown = None /\ q.passed = 0
              /\ q.body.data # None
              /\ d.answer = Some("Sorry, I encountered an error while analyzing your transactions.")
              /\ d.relevantTransactions = Some(<<>>)
              /\ d.totalAmount = Some(0)
              /\ d.transactionCount # None /\ d.transactionCount[1] >= 1
              /\ q.since = Version
                 => d.transactionCount[1] = Cardinality(OwnedBy(transaction, q.userId))

C12_Witness ==
    \E r \in Slots :
        /\ reqs[r].kind = "query" /\ reqs[r].pc = "done"
        /\ reqs[r].genError = Some("429 quota exceeded")
        /\ reqs[r].status = 200
        /\ OwnedBy(transaction, reqs[r].userId) # {}

\* The sum of the amounts of a set of rows.
RECURSIVE AmountOf(_)
AmountOf(rows) ==
    IF rows = {} THEN 0
    ELSE LET x == CHOOSE x \in rows : TRUE IN x.amount + AmountOf(rows \ {x})
SummaryDone(q) ==
    q.kind = "summary" /\ q.pc = "done" /\ q.status = 200 /\ q.since = Version

\* C13: a summary answered 200 (no row written while it was served) returns
\* totalCredit = the sum of the user's Credit amounts, totalDebit = the sum of
\* the user's Debit amounts, creditCount and debitCount = the numbers of those
\* rows, and balance = totalCredit - totalDebit, whatever the Transaction
\* table holds.
C13_SummaryFromSpecificTables ==
    \A r \in Slots :
        LET q == reqs[r]
            d == q.body.summary[1]
        IN SummaryDone(q)
           => /\ q.body.summary # None
              /\ d.totalCredit = AmountOf(OwnedBy(credit, q.userId))
              /\ d.totalDebit = AmountOf(OwnedBy(debit, q.userId))
              /\ d.creditCount = Cardinality(OwnedBy(credit, q.userId))
              /\ d.debitCount = Cardinality(OwnedBy(debit, q.userId))
              /\ d.balance = d.totalCredit - d.totalDebit

C13_Witness ==
    \E r \in Slots :
        /\ SummaryDone(reqs[r])
        /\ reqs[r].body.summary[1].totalCredit = 500
        /\ AmountOf(OwnedBy(transaction, reqs[r].userId)) = 700
        /\ reqs[r].body.summary[1].balance = 500

\* The process requests for a phone answered 201 and written to a table.
PostedTo(phone, table) == {p \in posted : p.userPhone = phone /\ p.table = table}

\* C14: after process requests for a phone that were answered 201, a summary
\* for that phone returns totalCredit = the sum of the amounts of the requests
\* analysed as credit, totalDebit = the sum of those analysed as debit,
\* creditCount and debitCount = the numbers of such requests, and balance =
\* their difference.
C14_SummaryAfterProcess ==
    \A r \in Slots :
        LET q == reqs[r]
            d == q.body.summary[1]
        IN SummaryDone(q)
           => /\ d.totalCredit = AmountOf(PostedTo(q.userPhone, "credit"))
              /\ d.totalDebit = AmountOf(PostedTo(q.userPhone, "debit"))
              /\ d.creditCount = Cardinality(PostedTo(q.userPhone, "credit"))
              /\ d.debitCount = Cardinality(PostedTo(q.userPhone, "debit"))
              /\ d.balance = AmountOf(PostedTo(q.userPhone, "credit"))
                             - AmountOf(PostedTo(q.userPhone, "debit"))

C14_Witness ==
    \E r \in Slots :
        LET q == reqs[r]
        IN /\ SummaryDone(q)
           /\ Cardinality(PostedTo(q.userPhone, "credit")) = 1
           /\ Cardinality(PostedTo(q.userPhone, "debit")) = 1
           /\ q.body.summary[1].totalCredit = 500 /\ q.body.summary[1].totalDebit = 200
           /\ q.body.summary[1].creditCount = 1 /\ q.body.summary[1].debitCount = 1
           /\ q.body.summary[1].balance = 300

Containing(filter) ==
    CASE filter = "food" -> {Some("food"), Some("Food"), Some("FOOD delivery")}
      [] filter = "GIFT" -> {Some("gift")}
      [] OTHER -> {}
Elements(list) == {list[i] : i \in 1..Len(list)}

\* C16: a by-category read answered 200 (no row written while it was served)
\* returns exactly the user's Transaction rows whose category contains the
\* filter text compared case-insensitively, each once, rows without category
\* never; debits holds the user's Debit rows under the same filter and
\* totalAmount is the sum of their amounts.
C16_CategoryFilter ==
    \A r \in Slots :
        LET q == reqs[r]
            d == q.body.byCategory[1]
            txs == {t \in OwnedBy(transaction, q.userId) : t.category \in Containing(q.category)}
            dbs == {t \in OwnedBy(debit, q.userId) : t.category \in Containing(q.category)}
        IN (q.kind = "category" /\ q.pc = "done" /\ q.status = 200 /\ q.since = Version)
           => /\ q.body.byCategory # None
              /\ Elements(d.transactions) = txs
              /\ Len(d.transactions) = Cardinality(txs)
              /\ d.count = Cardinality(txs)
              /\ \A t \in Elements(d.transactions) : t.category # None
              /\ Elements(d.debits) = dbs
              /\ Len(d.debits) = Cardinality(dbs)
              /\ d.totalAmount = AmountOf(dbs)

C16_Witness ==
    \E r \in Slots :
        LET q == reqs[r]
        IN /\ q.kind = "category" /\ q.pc = "done" /\ q.status = 200
           /\ q.category = "food"
           /\ \E t \in Elements(q.body.byCategory[1].transactions) :
                 t.category = Some("FOOD delivery")
           /\ \E t \in Elements(q.body.byCategory[1].transactions) :
                 t.category = Some("Food")
           /\ q.body.byCategory[1].totalAmount = 195

\* C17: with POST /users requests served one at a time, a request whose phone
\* already has a User row is answered 400 with the duplicate-phone error and
\* adds no row; a request answered 201 has created the only row of its phone;
\* no phone ever has two User rows; a request without userPhone is answered
\* 400 and adds no row.
C17_DuplicateUserRejected ==
    /\ \A u, v \in user : u.phone = v.phone => u = v
    /\ \A r \in Slots :
          LET q == reqs[r]
          IN (q.kind = "createUser" /\ q.pc = "done" /\ q.thrown = None)
             => /\ (\E u \in user : u.phone = q.userPhone /\ u.req # q.id)
                   => /\ q.status = 400
                      /\ q.body.message = "User with this phone number already exists"
                      /\ RowsBy(user, q.id) = {}
                /\ q.status = 201
                   => /\ Cardinality(RowsBy(user, q.id)) = 1
                      /\ \A u \in user : u.phone = q.userPhone => u.req = q.id
                /\ q.userPhone = "" => q.status = 400 /\ RowsBy(user, q.id) = {}

C17_Witness ==
    \E r \in Slots :
        LET q == reqs[r]
        IN /\ q.kind = "createUser" /\ q.pc = "done" /\ q.status = 400
           /\ q.body.message = "User with this phone number already exists"
           /\ \E u \in user : u.phone = q.userPhone /\ u.req # q.id /\ u.name = Some("Asha")
           /\ Cardinality(user) = 1

\* C18: a read-side accessor request carrying the phone of an existing user
\* is answered 200, one carrying a phone without User row is answered 404, and
\* neither writes a row.
C18_AccessorsAnswerForExistingUser ==
    \A r \in Slots :
        LET q == reqs[r]
        IN (q.kind \in {"list", "summary", "credits", "debits", "category"}
                /\ q.pc = "done" /\ q.thrown = None /\ q.userPhone # ""
                /\ q.since = Version)
           => /\ q.status = IF \E u \in user : u.phone = q.userPhone THEN 200 ELSE 404
              /\ WroteNothing(q)

\* C19: at most one User row exists per phone; a process request whose
\* prisma.user.create lost against a concurrent creation of the same phone is
\* answered 409 by the error boundary, exactly one User row for the phone
\* exists, created by the other request, and the loser has written no User,
\* Transaction, Credit or Debit row.
C19_CreationRaceLoserGets409 ==
    /\ \A u, v \in user : u.phone = v.phone => u = v
    /\ \A r \in Slots :
          LET q == reqs[r]
          IN (q.kind = "process" /\ q.pc = "done" /\ q.thrown # None
                  /\ q.thrown[1].code = Some("P2002"))
             => /\ q.status = 409
                /\ q.passed = 1
                /\ Cardinality({u \in user : u.phone = q.userPhone}) = 1
                /\ WroteNothing(q)

C19_Witness ==
    \E r, s \in Slots :
        /\ reqs[r].kind = "process" /\ reqs[r].pc = "done" /\ reqs[r].status = 409
        /\ reqs[r].storeCalls = 2
        /\ reqs[s].kind = "process" /\ reqs[s].pc = "saveTransaction"
        /\ reqs[s].userPhone = reqs[r].userPhone
        /\ RowsBy(user, reqs[s].id) # {}
        /\ reqs[s].since = 0 /\ reqs[r].since = 0

\* C20: a store error thrown by a call made inside processTransaction,
\* queryTransactions or a read-side accessor is passed once to the error
\* boundary, which answers 409 for P2002, 404 for P2025, 400 for any other
\* known request error and for a validation error, and otherwise 500 with the
\* message 'Internal Server Error'.
C20_StoreErrorsReachBoundary ==
    \A r \in Slots :
        LET q == reqs[r]
            e == q.thrown[1]
        IN (q.kind \notin {"none", "createUser"} /\ q.entered /\ q.thrown # None)
           => /\ q.pc = "done"
              /\ q.passed = 1
              /\ q.status =
                    IF e.cls = "PrismaClientKnownRequestError"
                    THEN (IF e.code = Some("P2002") THEN 409
                          ELSE IF e.code = Some("P2025") THEN 404 ELSE 400)
                    ELSE IF e.cls = "PrismaClientValidationError" THEN 400
                    ELSE 500
              /\ q.status = 500 => q.body.message = "Internal Server Error"
              /\ ~q.body.success
              /\ q.body.details = None

C20_Witness ==
    \E r \in Slots :
        /\ reqs[r].kind = "summary" /\ reqs[r].entered /\ reqs[r].pc = "done"
        /\ reqs[r].thrown # None /\ reqs[r].thrown[1].cls = "Error"
        /\ reqs[r].storeCalls = 3
        /\ reqs[r].status = 500 /\ reqs[r].body.message = "Internal Server Error"

\* C21: with NODE_ENV = production, a response produced by errorHandler carries
\* the message only: no stack, no store error code, no store metadata.
C21_ProductionHidesStoreDetails ==
    \A r \in Slots :
        LET q == reqs[r]
        IN (nodeEnv = "production" /\ q.pc = "done" /\ q.passed > 0)
           => /\ q.body.stack = None
              /\ q.body.code = None
              /\ q.body.meta = None

\* C22: a process request answered 201 has created a Credit row iff its
\* analysis type is 'credit' in any letter case, a Debit row iff it is 'debit'
\* in any letter case, never both; for any other type it has created the
\* Transaction row and no Credit or Debit row and the 201 carries no
\* specificTransaction; the Transaction row stores the type as returned.
C22_SpecificRowByLowerCasedType ==
    \A r \in Slots :
        LET q == reqs[r]
            type == q.analysis[1].type[1]
        IN /\ ~(RowsBy(credit, q.id) # {} /\ RowsBy(debit, q.id) # {})
           /\ Answered201(q)
              => /\ Cardinality(RowsBy(transaction, q.id)) = 1
                 /\ \A t \in RowsBy(transaction, q.id) : t.type = type
                 /\ Cardinality(RowsBy(credit, q.id))
                       = (IF type \in {"credit", "Credit", "CREDIT"} THEN 1 ELSE 0)
                 /\ Cardinality(RowsBy(debit, q.id))
                       = (IF type \in {"debit", "Debit", "DEBIT"} THEN 1 ELSE 0)
                 /\ type \notin {"credit", "Credit", "CREDIT", "debit", "Debit", "DEBIT"}
                       => q.body.specificTransaction = None

C22_Witness ==
    \E r \in Slots :
        /\ Answered201(reqs[r])
        /\ reqs[r].analysis[1].type = Some("transfer")
        /\ \E t \in RowsBy(transaction, reqs[r].id) : t.type = "transfer"
        /\ reqs[r].body.specificTransaction = None
        /\ \E t \in transaction : t.type = "Credit"
        /\ Cardinality(credit) = 1 /\ debit = {}

\* C23: the date of every persisted row is a valid instant; a process request
\* answered 201 has written the same date to its Transaction row and to its
\* Credit or Debit row and echoes it as analysis.date; that date is the instant
\* the analysis date parses to, or an instant of the wall clock when it does
\* not parse.
C23_DateNormalizedOnce ==
    /\ \A t \in transaction \cup credit \cup debit : t.date \in 1..now
    /\ \A r \in Slots :
          LET q == reqs[r]
              a == q.analysis[1]
              rows == RowsBy(transaction, q.id) \cup RowsBy(credit, q.id)
                        \cup RowsBy(debit, q.id)
          IN Answered201(q)
             => /\ q.body.analysis # None
                /\ \A t \in rows :
                      /\ t.date = q.body.analysis[1].date
                      /\ a.date # None /\ a.date[1].iso => t.date = a.date[1].t
                      /\ ~(a.date # None /\ a.date[1].iso) => t.date \in 1..now

C23_Witness ==
    \E r \in Slots :
        LET q == reqs[r]
        IN /\ Answered201(q)
           /\ q.analysis[1].date = Some([iso |-> FALSE, t |-> 0])
           /\ \E t \in RowsBy(transaction, q.id), d \in RowsBy(debit, q.id) :
                 t.date = 2 /\ d.date = 2
           /\ q.body.analysis[1].date = 2

\* The table a list accessor reads.
TableOf(kind) ==
    IF kind = "list" THEN transaction ELSE IF kind = "credits" THEN credit ELSE debit
\* The list holds rows of the user uid only, latest first, and all of them
\* when no row was written while the request was served.
ListOf(list, table, uid, complete) ==
    /\ \A i \in 1..Len(list) : list[i] \in table /\ list[i].userId = uid
    /\ \A i, j \in 1..Len(list) : i < j => list[i].date >= list[j].date
    /\ complete => /\ Elements(list) = OwnedBy(table, uid)
                   /\ Len(list) = Cardinality(OwnedBy(table, uid))

\* C24: the lists answered by list-transactions, credits and debits and the
\* list handed to the query engine hold exactly the rows owned by the user of
\* the request's phone, ordered by date descending; every Transaction, Credit
\* and Debit row is owned by exactly one User, the one with the phone of the
\* process request that created the row.
C24_ListsAreTheUsersRows ==
    /\ \A t \in transaction \cup credit \cup debit :
          /\ Cardinality({u \in user : u.id = t.userId}) = 1
          /\ \A r \in Slots : reqs[r].id = t.req
                => /\ reqs[r].kind = "process"
                   /\ \E u \in user : u.id = t.userId /\ u.phone = reqs[r].userPhone
          /\ \A p \in posted : p.id = t.req
                => \E u \in user : u.id = t.userId /\ u.phone = p.userPhone
    /\ \A r \in Slots :
          LET q == reqs[r]
          IN /\ (q.kind \in {"list", "credits", "debits"} /\ q.pc = "done" /\ q.status = 200)
                => /\ q.body.rows # None
                   /\ \E u \in user : u.phone = q.userPhone /\ u.id = q.userId
                   /\ ListOf(q.body.rows[1], TableOf(q.kind), q.userId, q.since = Version)
             /\ (q.kind = "query" /\ q.fetched # None)
                => /\ \E u \in user : u.phone = q.userPhone /\ u.id = q.userId
                   /\ ListOf(q.fetched[1], transaction, q.userId, q.since = Version)

C24_Witness ==
    \E r \in Slots :
        LET q == reqs[r]
        IN /\ q.kind = "list" /\ q.pc = "done" /\ q.status = 200
           /\ Len(q.body.rows[1]) = 1
           /\ \E t \in transaction : t.userId # q.userId
           /\ Cardinality(user) = 2

\* The position of a request in its handler.
Rank(pc) ==
    CASE pc = "idle" -> 0
      [] pc = "checkUser" -> 1
      [] pc \in {"analyze", "queryFindUser"} -> 2
      [] pc \in {"findUser", "queryFetch"} -> 3
      [] pc \in {"createUser", "queryGenerate"} -> 4
      [] pc = "saveTransaction" -> 5
      [] pc = "saveSpecific" -> 6
      [] OTHER -> 7

\* C25: a process or query request issues at most one generation call and
\* none after a failed one; every step moves the request forward in its
\* handler, so each store call is issued at most once, and the request writes
\* at most one row to each table.
C25_NoRetries ==
    [][\A r \in Slots :
          (reqs[r].kind \in {"process", "query"} /\ reqs'[r].id = reqs[r].id)
          => /\ reqs'[r].genCalls <= 1
             /\ reqs[r].genError # None => reqs'[r].genCalls = reqs[r].genCalls
             /\ reqs'[r] # reqs[r] => Rank(reqs'[r].pc) > Rank(reqs[r].pc)
             /\ reqs'[r].storeCalls <= 4
             /\ Cardinality(RowsBy(user', reqs[r].id)) <= 1
             /\ Cardinality(RowsBy(transaction', reqs[r].id)) <= 1
             /\ Cardinality(RowsBy(credit', reqs[r].id))
                  + Cardinality(RowsBy(debit', reqs[r].id)) <= 1]_vars

C25_Witness ==
    \E r \in Slots :
        /\ Answered201(reqs[r])
        /\ reqs[r].genCalls = 1 /\ reqs[r].storeCalls = 4
        /\ Cardinality(RowsBy(user, reqs[r].id)) = 1
        /\ Cardinality(RowsBy(credit, reqs[r].id)) = 1

\* C26: a request waiting for its generation call leaves that position only
\* with the call's outcome (an analysis or an answer); a response, once
\* written, is followed only by the release of the connection; and, every call
\* returning or failing, every request received is eventually answered.
C26_EveryRequestAnswered ==
    /\ [][\A r \in Slots :
             /\ (reqs[r].pc \in {"analyze", "queryGenerate"} /\ reqs'[r] # reqs[r])
                => /\ reqs'[r].id = reqs[r].id
                   /\ reqs'[r].analysis # None \/ reqs'[r].body.data # None
             /\ (reqs[r].pc = "done" /\ reqs'[r] # reqs[r]) => reqs'[r].pc = "idle"
             /\ reqs[r].pc \notin {"idle", "done"} => reqs'[r].pc # "idle"]_vars
    /\ \A r \in Slots : (reqs[r].pc # "idle") ~> (reqs[r].pc = "done")

C26_Witness ==
    \E r \in Slots :
        /\ reqs[r].kind = "query" /\ reqs[r].pc = "done" /\ reqs[r].genCalls = 1
        /\ reqs[r].status = 200 /\ reqs[r].genError = None

ReadKinds == {"query", "list", "summary", "credits", "debits", "category", "search"}

\* C27: no step removes or changes a row of the User, Transaction, Credit or
\* Debit table (each table only grows), and no step of a query,
\* list-transactions, summary, credits, debits, by-category or user search
\* request, the lookup of checkUserExists included, changes any table.
C27_AppendOnlyReadsPure ==
    [][/\ user \subseteq user'
       /\ transaction \subseteq transaction'
       /\ credit \subseteq credit'
       /\ debit \subseteq debit'
       /\ \A r \in Slots :
             ((reqs[r].kind \in ReadKinds \/ reqs'[r].kind \in ReadKinds)
                 /\ reqs'[r] # reqs[r])
             => store' = store]_vars

C27_Witness ==
    \E r \in Slots :
        /\ reqs[r].kind = "search" /\ reqs[r].pc = "done" /\ reqs[r].status = 200
        /\ reqs[r].body.user # None
        /\ transaction # {}

\* C28: no phone has two User rows; a POST /users request whose insert hit
\* the unique constraint (a concurrent request created the phone after both
\* had passed the existence check) is answered by createUser itself with 500
\* 'Error creating user', not with 400 or 409, nothing is passed to the error
\* boundary, and the request has added no row.
C28_CreateUserRaceLoserGets500 ==
    /\ \A u, v \in user : u.phone = v.phone => u.id = v.id /\ u.req = v.req
    /\ \A r \in Slots :
          LET q == reqs[r]
          IN (q.kind = "createUser" /\ q.pc = "done" /\ q.thrown # None
                  /\ q.thrown[1].code = Some("P2002"))
             => /\ q.status = 500
                /\ q.body.message = "Error creating user"
                /\ q.body.details = Some(q.thrown[1].message)
                /\ q.passed = 0
                /\ RowsBy(user, q.id) = {}
                /\ \E u \in user : u.phone = q.userPhone /\ u.req # q.id

C28_Witness ==
    \E r \in Slots :
        LET q == reqs[r]
        IN /\ q.kind = "createUser" /\ q.pc = "done" /\ q.status = 500
           /\ q.storeCalls = 2 /\ q.since = 0
           /\ q.thrown # None /\ q.thrown[1].code = Some("P2002")
           /\ \E u \in user : u.phone = q.userPhone /\ u.name = Some("Asha")
           /\ Cardinality(user) = 1

\* The bucket of a Debit row and of a Credit row.
DebitBucket(d) == IF d.category = None THEN "uncategorized" ELSE d.category[1]
CreditBucket(c) == IF c.source = None THEN "unknown" ELSE c.source[1]
\* The sum of the values of a breakdown.
RECURSIVE ValueSum(_, _)
ValueSum(breakdown, keys) ==
    IF keys = {} THEN 0
    ELSE LET k == CHOOSE k \in keys : TRUE
         IN breakdown[k].parts[1] + ValueSum(breakdown, keys \ {k})

\* C29: in every summary answered 200 each value of categoryBreakdown is the
\* number that sums the amounts of the user's Debit rows of that bucket, each
\* value of sourceBreakdown the number that sums the amounts of the Credit
\* rows of that bucket, every row falls in one bucket, and the values sum to
\* totalDebit and totalCredit.
C29_BreakdownsPartitionTotals ==
    \A r \in Slots :
        LET q == reqs[r]
            d == q.body.summary[1]
            debits == OwnedBy(debit, q.userId)
            credits == OwnedBy(credit, q.userId)
        IN SummaryDone(q)
           => /\ DOMAIN d.categoryBreakdown = {DebitBucket(x) : x \in debits}
              /\ DOMAIN d.sourceBreakdown = {CreditBucket(x) : x \in credits}
              /\ \A k \in DOMAIN d.categoryBreakdown :
                    /\ ~d.categoryBreakdown[k].string
                    /\ d.categoryBreakdown[k].parts
                         = <<AmountOf({x \in debits : DebitBucket(x) = k})>>
              /\ \A k \in DOMAIN d.sourceBreakdown :
                    /\ ~d.sourceBreakdown[k].string
                    /\ d.sourceBreakdown[k].parts
                         = <<AmountOf({x \in credits : CreditBucket(x) = k})>>
              /\ ValueSum(d.categoryBreakdown, DOMAIN d.categoryBreakdown) = d.totalDebit
              /\ ValueSum(d.sourceBreakdown, DOMAIN d.sourceBreakdown) = d.totalCredit

\* C30: with requests served one at a time, after a process request for a
\* phone was answered 201, no later request for the phone is answered 404,
\* a later getTransactions for the phone answers 200 with a list holding the
\* Transaction row the process request created, and a later queryTransactions
\* with a question calls the query engine and answers with transactionCount
\* of at least 1 (no store call failing).
C30_ReadYourWrites ==
    \A r \in Slots : \A p \in posted :
        LET q == reqs[r]
        IN (q.pc = "done" /\ q.thrown = None /\ p.id < q.id)
           => /\ q.userPhone = p.userPhone => q.status # 404
              /\ (q.kind = "list" /\ q.entered /\ Params(q).userPhone = p.userPhone)
                 => /\ q.status = 200
                    /\ \E i \in 1..Len(q.body.rows[1]) :
                          /\ q.body.rows[1][i].req = p.id
                          /\ q.body.rows[1][i] \in transaction
              /\ (q.kind = "query" /\ q.entered /\ q.question # ""
                     /\ q.userPhone = p.userPhone)
                 => /\ q.status = 200
                    /\ q.genCalls = 1
                    /\ q.body.data[1].answer # Some("You don't have any transactions yet.")
                    /\ q.body.data[1].transactionCount # None
                    /\ q.body.data[1].transactionCount[1] >= 1

C30_Witness ==
    \E r \in Slots : \E p \in posted :
        LET q == reqs[r]
        IN /\ q.kind = "list" /\ q.pc = "done" /\ q.status = 200
           /\ p.id < q.id /\ p.userPhone = q.userPhone
           /\ Len(q.body.rows[1]) = 2
           /\ \E i \in 1..2 : q.body.rows[1][i].req = p.id

====
